---------------------------- MODULE Spec2Model ----------------------------
(***************************************************************************)
(* A model of the todos application (src/todos/views.py): the Todo table   *)
(* and the five request handlers (list, create, update, delete, toggle).   *)
(*                                                                         *)
(* Spec     handles one request at a time: each action is a whole handler. *)
(* SpecConc handles requests on several workers: a handler that reads the  *)
(*          row and writes it later (toggle, update submit, delete submit) *)
(*          is split at its database statements, which interleave.         *)
(***************************************************************************)
EXTENDS Integers, Sequences, FiniteSets, TLC

(* ------------------------------ bounds -------------------------------- *)

\* Rows ever inserted by a create submit (caps the id sequence).
MaxTodos == 2

\* Requests started in a run of SpecConc.
MaxReqs == 3

\* Workers handling requests at the same time in SpecConc.
Workers == {"w1", "w2"}

\* Primary keys a request may name: every id that can exist and one that never does.
Pks == 1 .. (MaxTodos + 1)

Methods == {"GET", "POST"}

(* ----------------------------- form data ------------------------------ *)

\* A request without form fields.
NoData == [title |-> "", description |-> "", due_date |-> ""]

\* The submitted form payloads: optional fields absent, filled in, two
\* different dates, an empty title, an unparseable date.
Forms ==
    { [title |-> "a", description |-> "",  due_date |-> ""],
      [title |-> "b", description |-> "d", due_date |-> "2023-12-30"],
      [title |-> "a", description |-> "d", due_date |-> "2023-12-31"],
      [title |-> "",  description |-> "d", due_date |-> "2023-12-31"],
      [title |-> "b", description |-> "",  due_date |-> "bad"] }

\* due_date column: <<>> is NULL, <<n>> the date yyyymmdd.
NoDate == << >>

\* The date field's parse of its input: the values it accepts.
ParsesAsDate(s) == s \in {"2023-12-30", "2023-12-31"}

to_python(s) ==
    CASE s = "2023-12-30" -> << 20231230 >>
      [] s = "2023-12-31" -> << 20231231 >>
      [] OTHER            -> NoDate

\* TodoForm.is_valid(): title required, due_date empty or a date.
is_valid(data) ==
    /\ data.title # ""
    /\ (data.due_date = "" \/ ParsesAsDate(data.due_date))

\* TodoForm.cleaned_data: the model fields the form carries.
cleaned_data(data) ==
    [title |-> data.title, description |-> data.description,
     due_date |-> to_python(data.due_date)]

(* ------------------------------ the table ----------------------------- *)

\* Todo(**fields): a new instance; is_resolved takes its default.
NewTodo(c) ==
    [title |-> c.title, description |-> c.description,
     due_date |-> c.due_date, is_resolved |-> FALSE]

\* ModelForm.construct_instance: the form's fields onto the instance.
construct_instance(obj, c) ==
    [obj EXCEPT !.title = c.title, !.description = c.description,
                !.due_date = c.due_date]

\* The row with its primary key, as a query returns it.
Row(store, pk) ==
    [id |-> pk, title |-> store[pk].title, description |-> store[pk].description,
     due_date |-> store[pk].due_date, is_resolved |-> store[pk].is_resolved]

\* get_object_or_404 / get_object: whether the SELECT finds the row.
Found(store, pk) == pk \in DOMAIN store

\* INSERT of a new row under the next value of the id sequence.
Insert(store, id, obj) ==
    [p \in DOMAIN store \cup {id} |-> IF p = id THEN obj ELSE store[p]]

\* Model.save() of a loaded instance: UPDATE of every column WHERE id = pk,
\* and an INSERT under the same pk when the UPDATE matched no row.
save(store, pk, obj) ==
    [p \in DOMAIN store \cup {pk} |-> IF p = pk THEN obj ELSE store[p]]

\* Model.delete(): DELETE WHERE id = pk.
delete(store, pk) ==
    [p \in DOMAIN store \ {pk} |-> store[p]]


(* ------------------------------ ordering ------------------------------ *)

\* A slip: the two columns of the ordering the other way round.
ordering_date_first == << "due_date", "is_resolved" >>

\* TodoListView.ordering
ordering == << "is_resolved", "due_date" >>

\* ORDER BY <field> ASC on one column. A boolean sorts false before true; a
\* NULL date sorts before every date or after every date, as the database
\* backend has it (nullsFirst).
FieldLess(f, a, b, nullsFirst) ==
    IF f = "is_resolved"
    THEN (~a.is_resolved) /\ b.is_resolved
    ELSE IF a.due_date = NoDate /\ b.due_date = NoDate THEN FALSE
    ELSE IF a.due_date = NoDate THEN nullsFirst
    ELSE IF b.due_date = NoDate THEN ~nullsFirst
    ELSE a.due_date[1] < b.due_date[1]

FieldEq(f, a, b) ==
    IF f = "is_resolved" THEN a.is_resolved = b.is_resolved
    ELSE a.due_date = b.due_date

\* ORDER BY over a list of columns: the first column that differs decides.
RECURSIVE RowLess(_, _, _, _)
RowLess(fields, a, b, nullsFirst) ==
    /\ fields # << >>
    /\ \/ FieldLess(Head(fields), a, b, nullsFirst)
       \/ /\ FieldEq(Head(fields), a, b)
          /\ RowLess(Tail(fields), a, b, nullsFirst)

\* Todo.objects.order_by(*fields): every row once, no row before a row that
\* sorts before it; rows with equal keys come in any order.
order_by(store, fields, nullsFirst) ==
    LET n == Cardinality(DOMAIN store)
        perms == { f \in [1 .. n -> DOMAIN store] :
                     \A i, j \in 1 .. n : i # j => f[i] # f[j] }
        rows(f) == [i \in 1 .. n |-> Row(store, f[i])]
    IN  { rows(f) : f \in { g \in perms :
            \A i, j \in 1 .. n :
              i < j => ~RowLess(fields, Row(store, g[j]), Row(store, g[i]), nullsFirst) } }

(* ------------------------------ responses ----------------------------- *)

\* TodoListView.template_name
list_template == "todos/todo_list.html"

\* TodoCreateView.template_name, TodoUpdateView.template_name
form_template == "todos/todo_form.html"

\* TodoDeleteView.template_name
delete_template == "todos/todo_confirm_delete.html"

\* success_url of the create, update and delete views; redirect('todo_list').
success_url == "todo_list"

\* A rendered page: the template, the rows in its context, whether the form
\* in it carries errors.
render(template, rows, errors) ==
    [status |-> 200, template |-> template, location |-> "",
     body |-> rows, errors |-> errors]

redirect(to) ==
    [status |-> 302, template |-> "", location |-> to,
     body |-> << >>, errors |-> FALSE]

\* Http404
NotFound ==
    [status |-> 404, template |-> "", location |-> "",
     body |-> << >>, errors |-> FALSE]

Request(op, method, pk, data) ==
    [op |-> op, method |-> method, pk |-> pk, data |-> data]

(* ------------------------------- state -------------------------------- *)

VARIABLES
    todos,      \* the Todo table: id -> row
    nextId,     \* the id column's sequence: the id the next INSERT gets
    deleted,    \* history: the ids whose delete submit has completed
    req,        \* the request handled last
    resp,       \* the response to it
    inflight,   \* SpecConc: per worker, the request it is in the middle of
    started     \* SpecConc, history: the requests started so far, in order,
                \* each with the requests answered before it started and
                \* whether it is answered

vars == << todos, nextId, deleted, req, resp, inflight, started >>

Idle == [pc |-> "idle", req |-> Request("none", "GET", 0, NoData),
         obj |-> NewTodo(cleaned_data(NoData)), idx |-> 0]

Init ==
    /\ todos = << >>
    /\ nextId = 1
    /\ deleted = {}
    /\ req = Request("none", "GET", 0, NoData)
    /\ resp = render("", << >>, FALSE)
    /\ inflight = [w \in Workers |-> Idle]
    /\ started = << >>

(* ---------------------------- the handlers ---------------------------- *)

\* What handling a request leaves: the table, the id sequence, the response.
Result(store, next, response) ==
    [todos |-> store, nextId |-> next, resp |-> response]

\* A slip: the toggle marks the row resolved instead of negating the flag.
flip_resolve(obj) == [obj EXCEPT !.is_resolved = TRUE]

\* todo.is_resolved = not todo.is_resolved
flip(obj) == [obj EXCEPT !.is_resolved = ~ @]

\* TodoListView: the page of all rows in the view's ordering (the responses
\* the database's order of equal keys and of NULLs allows).
TodoListView(store) ==
    { render(list_template, rows, FALSE) :
        rows \in UNION { order_by(store, ordering, nf) : nf \in BOOLEAN } }

\* A slip: a form view that never saves (a FormView in place of a CreateView).
TodoCreateView_never_saves(store, next, method, data) ==
    IF method = "GET"
    THEN Result(store, next, render(form_template, << >>, FALSE))
    ELSE IF is_valid(data)
    THEN Result(store, next, redirect(success_url))
    ELSE Result(store, next, render(form_template, << >>, TRUE))

\* A slip: the submit saves the instance without asking the form is_valid().
TodoCreateView_unvalidated(store, next, method, data) ==
    IF method = "GET"
    THEN Result(store, next, render(form_template, << >>, FALSE))
    ELSE Result(Insert(store, next, NewTodo(cleaned_data(data))), next + 1,
                redirect(success_url))

\* TodoCreateView: GET shows the empty form; POST validates, inserts, redirects.
TodoCreateView(store, next, method, data) ==
    IF method = "GET"
    THEN Result(store, next, render(form_template, << >>, FALSE))
    ELSE IF is_valid(data)
    THEN Result(Insert(store, next, NewTodo(cleaned_data(data))), next + 1,
                redirect(success_url))
    ELSE Result(store, next, render(form_template, << >>, TRUE))

\* A slip: the submit saves a fresh instance under the pk instead of the
\* loaded one, so is_resolved falls back to its default.
TodoUpdateView_fresh_instance(store, next, method, pk, data) ==
    IF ~Found(store, pk)
    THEN Result(store, next, NotFound)
    ELSE IF method = "GET"
    THEN Result(store, next, render(form_template, << Row(store, pk) >>, FALSE))
    ELSE IF is_valid(data)
    THEN Result(save(store, pk, NewTodo(cleaned_data(data))), next, redirect(success_url))
    ELSE Result(store, next, render(form_template, << Row(store, pk) >>, TRUE))

\* TodoUpdateView: get_object() or 404; GET shows the form of the row; POST
\* validates, writes the form's fields onto the loaded row and saves it.
TodoUpdateView(store, next, method, pk, data) ==
    IF ~Found(store, pk)
    THEN Result(store, next, NotFound)
    ELSE IF method = "GET"
    THEN Result(store, next, render(form_template, << Row(store, pk) >>, FALSE))
    ELSE IF is_valid(data)
    THEN Result(save(store, pk, construct_instance(store[pk], cleaned_data(data))),
                next, redirect(success_url))
    ELSE Result(store, next, render(form_template, << Row(store, pk) >>, TRUE))

\* A slip: the view deletes on GET too, without the confirmation page.
TodoDeleteView_on_get(store, next, method, pk) ==
    IF ~Found(store, pk)
    THEN Result(store, next, NotFound)
    ELSE Result(delete(store, pk), next, redirect(success_url))

\* TodoDeleteView: get_object() or 404; GET shows the confirmation page; POST
\* deletes the row and redirects.
TodoDeleteView(store, next, method, pk) ==
    IF ~Found(store, pk)
    THEN Result(store, next, NotFound)
    ELSE IF method = "GET"
    THEN Result(store, next, render(delete_template, << Row(store, pk) >>, FALSE))
    ELSE Result(delete(store, pk), next, redirect(success_url))

\* A slip: the flipped instance is never saved.
toggle_without_save(store, next, method, pk) ==
    IF ~Found(store, pk)
    THEN Result(store, next, NotFound)
    ELSE Result(store, next, redirect("todo_list"))

\* A slip: get_or_create in place of get_object_or_404.
toggle_get_or_create(store, next, method, pk) ==
    Result(save(store, pk, flip(IF Found(store, pk) THEN store[pk]
                                ELSE NewTodo(cleaned_data(NoData)))),
           next, redirect("todo_list"))

\* toggle_todo_status: get_object_or_404, flip, save, redirect; any method.
toggle_todo_status(store, next, method, pk) ==
    IF ~Found(store, pk)
    THEN Result(store, next, NotFound)
    ELSE Result(save(store, pk, flip(store[pk])), next, redirect("todo_list"))

\* A delete submit that went through.
IsDeleted(r, response) ==
    r.op = "delete" /\ r.method = "POST" /\ response.status = 302

\* The request r is answered with out: the table and the sequence are as the
\* handler left them, the exchange is the last one.
Answer(r, out) ==
    /\ todos' = out.todos
    /\ nextId' = out.nextId
    /\ deleted' = IF IsDeleted(r, out.resp) THEN deleted \cup {r.pk} ELSE deleted
    /\ req' = r
    /\ resp' = out.resp

\* The URL table: the handler of each request, and what it leaves when it
\* runs alone (the list page varies with the database's order of equal keys).
Handled(store, next, r) ==
    CASE r.op = "list" ->
           { Result(store, next, page) : page \in TodoListView(store) }
      [] r.op = "create" ->
           { TodoCreateView(store, next, r.method, r.data) }
      [] r.op = "update" ->
           { TodoUpdateView(store, next, r.method, r.pk, r.data) }
      [] r.op = "delete" ->
           { TodoDeleteView(store, next, r.method, r.pk) }
      [] r.op = "toggle" ->
           { toggle_todo_status(store, next, r.method, r.pk) }

\* The id sequence is capped: a create submit that would insert is taken
\* only while ids are left.
Admitted(r) ==
    (r.op = "create" /\ r.method = "POST" /\ is_valid(r.data)) => nextId <= MaxTodos

(* ------------------- one request at a time (Spec) --------------------- *)

\* The whole handler of r runs, and r is answered.
Handle(r) ==
    /\ Admitted(r)
    /\ \E out \in Handled(todos, nextId, r) : Answer(r, out)

List ==
    /\ Handle(Request("list", "GET", 0, NoData))
    /\ UNCHANGED << inflight, started >>

CreateForm ==
    /\ Handle(Request("create", "GET", 0, NoData))
    /\ UNCHANGED << inflight, started >>

Create(data) ==
    /\ Handle(Request("create", "POST", 0, data))
    /\ UNCHANGED << inflight, started >>

UpdateForm(pk) ==
    /\ Handle(Request("update", "GET", pk, NoData))
    /\ UNCHANGED << inflight, started >>

Update(pk, data) ==
    /\ Handle(Request("update", "POST", pk, data))
    /\ UNCHANGED << inflight, started >>

DeleteConfirm(pk) ==
    /\ Handle(Request("delete", "GET", pk, NoData))
    /\ UNCHANGED << inflight, started >>

Delete(pk) ==
    /\ Handle(Request("delete", "POST", pk, NoData))
    /\ UNCHANGED << inflight, started >>

Toggle(method, pk) ==
    /\ Handle(Request("toggle", method, pk, NoData))
    /\ UNCHANGED << inflight, started >>

Next ==
    \/ List
    \/ CreateForm
    \/ \E data \in Forms : Create(data)
    \/ \E pk \in Pks : UpdateForm(pk)
    \/ \E pk \in Pks, data \in Forms : Update(pk, data)
    \/ \E pk \in Pks : DeleteConfirm(pk)
    \/ \E pk \in Pks : Delete(pk)
    \/ \E method \in Methods, pk \in Pks : Toggle(method, pk)

Spec == Init /\ [][Next]_vars

(* --------------- requests on several workers (SpecConc) --------------- *)

AllIdle == \A w \in Workers : inflight[w].pc = "idle"

\* The requests answered so far, by their place in started.
Answered == { i \in 1 .. Len(started) : started[i].done }

\* A request is taken while the run's budget of requests lasts; done: it is
\* answered in the same step.
Start(r, done) ==
    /\ Len(started) < MaxReqs
    /\ Admitted(r)
    /\ started' = Append(started, [req |-> r, after |-> Answered, done |-> done])

\* The handlers that read the row in one statement and write in a later one.
ReadsThenWrites(r) ==
    \/ r.op = "toggle"
    \/ r.op = "update" /\ r.method = "POST"
    \/ r.op = "delete" /\ r.method = "POST"

\* A handler of a single statement (list, the forms, create submit) is one step.
ServeAtOnce(r) ==
    /\ ~ReadsThenWrites(r)
    /\ \E w \in Workers : inflight[w].pc = "idle"
    /\ Start(r, TRUE)
    /\ Handle(r)
    /\ UNCHANGED inflight

\* get_object_or_404 / get_object: worker w takes r and SELECTs the row. No
\* row: the 404 is the whole handler. An update submit whose form is invalid
\* ends here too, with the form and its errors. Otherwise w holds the loaded
\* instance and has its write ahead of it.
Load(w, r) ==
    /\ ReadsThenWrites(r)
    /\ inflight[w].pc = "idle"
    /\ IF Found(todos, r.pk) /\ (r.op = "update" => is_valid(r.data))
       THEN /\ Start(r, FALSE)
            /\ inflight' = [inflight EXCEPT
                              ![w] = [pc |-> "loaded", req |-> r, obj |-> todos[r.pk],
                                      idx |-> Len(started) + 1]]
            /\ UNCHANGED << todos, nextId, deleted, req, resp >>
       ELSE /\ Start(r, TRUE)
            /\ Handle(r)
            /\ UNCHANGED inflight

\* Worker w's write is done and its response sent.
Finish(w, store) ==
    /\ todos' = store
    /\ req' = inflight[w].req
    /\ resp' = redirect(success_url)
    /\ inflight' = [inflight EXCEPT ![w] = Idle]
    /\ started' = [started EXCEPT ![inflight[w].idx].done = TRUE]
    /\ UNCHANGED nextId

\* toggle_todo_status, after the read: flip the loaded instance and save it.
ToggleSave(w) ==
    /\ inflight[w].pc = "loaded"
    /\ inflight[w].req.op = "toggle"
    /\ Finish(w, save(todos, inflight[w].req.pk, flip(inflight[w].obj)))
    /\ UNCHANGED deleted

\* TodoUpdateView.form_valid: the form's fields onto the loaded instance, save.
UpdateSave(w) ==
    /\ inflight[w].pc = "loaded"
    /\ inflight[w].req.op = "update"
    /\ Finish(w, save(todos, inflight[w].req.pk,
                      construct_instance(inflight[w].obj,
                                         cleaned_data(inflight[w].req.data))))
    /\ UNCHANGED deleted

\* TodoDeleteView.form_valid: delete the loaded instance's row.
DeleteRow(w) ==
    /\ inflight[w].pc = "loaded"
    /\ inflight[w].req.op = "delete"
    /\ Finish(w, delete(todos, inflight[w].req.pk))
    /\ deleted' = deleted \cup {inflight[w].req.pk}

Requests ==
    {Request("list", "GET", 0, NoData), Request("create", "GET", 0, NoData)}
    \cup { Request("create", "POST", 0, data) : data \in Forms }
    \cup { Request("update", "GET", pk, NoData) : pk \in Pks }
    \cup { Request("update", "POST", pk, data) : pk \in Pks, data \in Forms }
    \cup { Request("delete", m, pk, NoData) : m \in Methods, pk \in Pks }
    \cup { Request("toggle", m, pk, NoData) : m \in Methods, pk \in Pks }

NextConc ==
    \/ \E r \in Requests : ServeAtOnce(r)
    \/ \E w \in Workers, r \in Requests : Load(w, r)
    \/ \E w \in Workers : ToggleSave(w)
    \/ \E w \in Workers : UpdateSave(w)
    \/ \E w \in Workers : DeleteRow(w)

SpecConc == Init /\ [][NextConc]_vars

(* ------------------------------ the claims ---------------------------- *)

\* The response is the redirect to the list.
ToList(response) ==
    response.status = 302 /\ response.location = "todo_list"

\* Every row of the table but pk's is in the next state what it is now.
OthersKept(pk) ==
    \A p \in DOMAIN todos \ {pk} : p \in DOMAIN todos' /\ todos'[p] = todos[p]

\* C1: a create submit with valid input adds exactly one row: the count grows
\* by one, the new row has the submitted title, description and due date and
\* is unresolved, its id is none of the ids stored before, every row stored
\* before is unchanged, and the response is the redirect to the list.
C1_CreateAddsOne ==
    [][ (req'.op = "create" /\ req'.method = "POST" /\ is_valid(req'.data)) =>
          /\ Cardinality(DOMAIN todos') = Cardinality(DOMAIN todos) + 1
          /\ OthersKept(0)
          /\ \E id \in DOMAIN todos' \ DOMAIN todos :
                /\ todos'[id].title = req'.data.title
                /\ todos'[id].description = req'.data.description
                /\ todos'[id].due_date = to_python(req'.data.due_date)
                /\ todos'[id].is_resolved = FALSE
          /\ ToList(resp') ]_vars

\* A second row has just been created beside an older one.
C1_Witness ==
    /\ req.op = "create" /\ req.method = "POST" /\ ToList(resp)
    /\ Cardinality(DOMAIN todos) = 2
    /\ \E id \in DOMAIN todos :
          todos[id].title = req.data.title /\ todos[id].due_date # NoDate

\* C2: a toggle request on an existing id negates is_resolved of that row and
\* changes nothing else: its title, description and due date, every other
\* row and the set of ids are as before; the response is the redirect to the
\* list, at once.
C2_ToggleFlipsOnly ==
    [][ (req'.op = "toggle" /\ Found(todos, req'.pk)) =>
          /\ DOMAIN todos' = DOMAIN todos
          /\ todos'[req'.pk].is_resolved = ~todos[req'.pk].is_resolved
          /\ todos'[req'.pk].title = todos[req'.pk].title
          /\ todos'[req'.pk].description = todos[req'.pk].description
          /\ todos'[req'.pk].due_date = todos[req'.pk].due_date
          /\ OthersKept(req'.pk)
          /\ nextId' = nextId
          /\ ToList(resp') ]_vars

\* A row has been toggled back to unresolved beside another row.
C2_Witness ==
    /\ req.op = "toggle" /\ ToList(resp)
    /\ Cardinality(DOMAIN todos) = 2
    /\ Found(todos, req.pk) /\ ~todos[req.pk].is_resolved
    /\ \E p \in DOMAIN todos : todos[p].is_resolved

\* C3: an update submit with valid input on an existing id overwrites title,
\* description and due date of that row with the submitted values, keeps its
\* id and its is_resolved, keeps every other row, creates no row, and the
\* response is the redirect to the list.
C3_UpdateOverwrites ==
    [][ (/\ req'.op = "update" /\ req'.method = "POST"
         /\ Found(todos, req'.pk) /\ is_valid(req'.data)) =>
          /\ DOMAIN todos' = DOMAIN todos
          /\ todos'[req'.pk].title = req'.data.title
          /\ todos'[req'.pk].description = req'.data.description
          /\ todos'[req'.pk].due_date = to_python(req'.data.due_date)
          /\ todos'[req'.pk].is_resolved = todos[req'.pk].is_resolved
          /\ OthersKept(req'.pk)
          /\ nextId' = nextId
          /\ ToList(resp') ]_vars

\* A resolved row has been updated beside another row, and is still resolved.
C3_Witness ==
    /\ req.op = "update" /\ req.method = "POST" /\ ToList(resp)
    /\ Cardinality(DOMAIN todos) = 2
    /\ Found(todos, req.pk) /\ todos[req.pk].is_resolved
    /\ todos[req.pk].title = req.data.title

\* C4: with one request handled at a time, a delete submit on an existing id
\* removes that row and no other; from then on the id is in no list page and
\* every update, delete or toggle request naming it is answered NotFound and
\* changes nothing. A delete GET on an existing id answers with the
\* confirmation page and removes nothing.
C4_DeleteTerminal ==
    [][ /\ (req'.op = "delete" /\ req'.method = "POST" /\ Found(todos, req'.pk)) =>
              /\ DOMAIN todos' = DOMAIN todos \ {req'.pk}
              /\ Cardinality(DOMAIN todos') = Cardinality(DOMAIN todos) - 1
              /\ OthersKept(req'.pk)
              /\ ToList(resp')
        /\ (req'.op = "delete" /\ req'.method = "GET" /\ Found(todos, req'.pk)) =>
              /\ todos' = todos
              /\ resp'.status = 200
              /\ resp'.template = "todos/todo_confirm_delete.html"
        /\ deleted' \cap DOMAIN todos' = {}
        /\ (req'.op = "list") =>
              \A i \in 1 .. Len(resp'.body) : resp'.body[i].id \notin deleted
        /\ (req'.op \in {"update", "delete", "toggle"} /\ req'.pk \in deleted) =>
              resp'.status = 404 /\ todos' = todos ]_vars

\* After a delete and a later create, a request naming the deleted id was
\* answered NotFound.
C4_Witness ==
    /\ req.op \in {"update", "delete", "toggle"}
    /\ req.pk \in deleted
    /\ resp.status = 404
    /\ DOMAIN todos # {}

\* C5: an update, delete or toggle request, GET or POST, naming an id that is
\* not stored is answered NotFound and leaves the table as it was.
C5_NotFoundKeepsStore ==
    [][ (req'.op \in {"update", "delete", "toggle"} /\ ~Found(todos, req'.pk)) =>
          /\ resp'.status = 404
          /\ todos' = todos
          /\ nextId' = nextId ]_vars

\* An update submit with valid data named an id that is not stored, beside a
\* stored row.
C5_Witness ==
    /\ req.op = "update" /\ req.method = "POST" /\ is_valid(req.data)
    /\ ~Found(todos, req.pk)
    /\ resp.status = 404
    /\ DOMAIN todos # {}

\* C6: a create or update submit whose input is invalid (empty title,
\* unparseable due date) leaves the table as it was; a create submit, and an
\* update submit on an existing id, show the form again with an error. Every
\* stored row has a non-empty title.
C6_InvalidKeepsStore ==
    [][ /\ (req'.method = "POST" /\ req'.op \in {"create", "update"}
            /\ ~is_valid(req'.data)) =>
              /\ todos' = todos
              /\ nextId' = nextId
              /\ (req'.op = "create" \/ Found(todos, req'.pk)) =>
                    /\ resp'.status = 200
                    /\ resp'.template = "todos/todo_form.html"
                    /\ resp'.errors
        /\ \A p \in DOMAIN todos' : todos'[p].title # "" ]_vars

\* An update submit with an empty title was refused on a stored row.
C6_Witness ==
    /\ req.op = "update" /\ req.method = "POST"
    /\ req.data.title = ""
    /\ Found(todos, req.pk)
    /\ resp.status = 200 /\ resp.errors

\* The table after a toggle request on pk, handled alone.
AfterToggle(store, next, method, pk) ==
    toggle_todo_status(store, next, method, pk).todos

\* C7: for every stored row, a toggle request on its id followed by another
\* gives back the table as it was; with a request that does not name the id
\* handled between the two, the row is as it was.
C7_ToggleInvolution ==
    \A pk \in DOMAIN todos : \A m1, m2 \in Methods :
        LET once == toggle_todo_status(todos, nextId, m1, pk)
        IN  /\ once.todos[pk] # todos[pk]
            /\ AfterToggle(once.todos, once.nextId, m2, pk) = todos
            /\ \A r \in Requests : r.pk # pk =>
                 \A mid \in Handled(once.todos, once.nextId, r) :
                    AfterToggle(mid.todos, mid.nextId, m2, pk)[pk] = todos[pk]

\* A row is unresolved again right after a toggle request on it: it went
\* false, true, false.
C7_Witness ==
    /\ req.op = "toggle" /\ ToList(resp)
    /\ Found(todos, req.pk)
    /\ ~todos[req.pk].is_resolved

\* rows holds every row of store exactly once.
EveryRowOnce(rows, store) ==
    /\ Len(rows) = Cardinality(DOMAIN store)
    /\ \A p \in DOMAIN store :
          \E i \in 1 .. Len(rows) :
             /\ rows[i] = Row(store, p)
             /\ \A j \in 1 .. Len(rows) : rows[j].id = p => j = i

\* C8: the list page holds every stored row exactly once; an unresolved row
\* comes before every resolved row, and of two rows with the same is_resolved
\* the one with the earlier due date comes first. Handling the list request
\* leaves the table as it was.
C8_ListOrdered ==
    [][ (req'.op = "list") =>
          /\ todos' = todos
          /\ nextId' = nextId
          /\ resp'.status = 200
          /\ EveryRowOnce(resp'.body, todos)
          /\ \A i, j \in 1 .. Len(resp'.body) :
                LET A == resp'.body[i]
                    B == resp'.body[j]
                IN  /\ (~A.is_resolved /\ B.is_resolved) => i < j
                    /\ (/\ A.is_resolved = B.is_resolved
                        /\ A.due_date # NoDate /\ B.due_date # NoDate
                        /\ A.due_date[1] < B.due_date[1]) => i < j ]_vars

\* The page lists an unresolved row before a resolved row whose due date is
\* the earlier one.
C8_Witness ==
    /\ req.op = "list"
    /\ Len(resp.body) = 2
    /\ ~resp.body[1].is_resolved /\ resp.body[2].is_resolved
    /\ resp.body[1].due_date # NoDate /\ resp.body[2].due_date # NoDate
    /\ resp.body[2].due_date[1] < resp.body[1].due_date[1]

\* The tables that handling the requests of seq one after another, each
\* alone, can leave.
RECURSIVE RunSerial(_, _, _)
RunSerial(store, next, seq) ==
    IF seq = << >>
    THEN {store}
    ELSE UNION { RunSerial(out.todos, out.nextId, Tail(seq)) :
                   out \in Handled(store, next, Head(seq)) }

\* The tables that handling the requests of the history one after another
\* can leave, in any order that puts a request answered before another one
\* started ahead of it.
SerialOutcomes(history) ==
    LET n == Len(history)
        orders == { f \in [1 .. n -> 1 .. n] :
                      /\ \A i, j \in 1 .. n : i # j => f[i] # f[j]
                      /\ \A i, j \in 1 .. n : f[j] \in history[f[i]].after => j < i }
    IN  UNION { RunSerial(<< >>, 1, [i \in 1 .. n |-> history[f[i]].req]) : f \in orders }

\* No request of the history is a delete submit.
NoDeleteSubmit(history) ==
    \A i \in 1 .. Len(history) :
        ~(history[i].req.op = "delete" /\ history[i].req.method = "POST")

\* C9: under every interleaving of the requests handled on the workers, once
\* all of them are answered the table is one that handling them one after
\* another, in some order, leaves: no flip of a toggle is lost, and a toggle
\* does not revert what an update wrote. (Stated for the runs without a
\* delete submit; a write that follows a delete is C10's.)
C9_Serializable ==
    (AllIdle /\ NoDeleteSubmit(started)) => todos \in SerialOutcomes(started)

\* C10: when a toggle request has read a row and a delete submit for the same
\* id completes before the toggle saves, the save does not bring a row with
\* that id back: after the save, as before it, an id whose delete has
\* completed is not in the table.
C10_DeletedStaysDeleted ==
    [][ \A w \in Workers :
          (/\ inflight[w].pc = "loaded" /\ inflight[w].req.op = "toggle"
           /\ inflight'[w].pc = "idle"
           /\ deleted \cap DOMAIN todos = {}) =>
              deleted' \cap DOMAIN todos' = {} ]_vars

============================================================================
